---------------------------- MODULE Spec2Model ----------------------------
(***************************************************************************)
(* Model of data-validation/validator.py: the six validation predicates,   *)
(* run_all_validations, print_report and main, together with the direct    *)
(* calls that test_validation.py makes on the predicates.                  *)
(*                                                                         *)
(* A cell of a DataFrame is a tagged tuple: <<"null">> (NaN, what read_csv *)
(* makes of an empty field), <<"num", n>> or <<"str", s>> with s a         *)
(* sequence of code points.  A DataFrame is a record [columns, rows]: the  *)
(* set of column names and the sequence of rows, each row a function from  *)
(* the column names to cells.  A (passed, message) pair returned by a      *)
(* predicate is <<"return", passed, message>>; an exception leaving it is  *)
(* <<"raise", name>>.  A message is the tuple of the pieces its f-string   *)
(* is put together from.  The glyphs U+2713 and U+2717 of the messages are *)
(* written "[ok]" and "[x]".                                               *)
(***************************************************************************)
EXTENDS Integers, Sequences, FiniteSets, TLC

VARIABLES pc, file, df, results, stdout, exit_code, call, ret

vars == <<pc, file, df, results, stdout, exit_code, call, ret>>

---------------------------------------------------------------------------
(* Cells and strings *)

Null == <<"null">>

Num(n) == <<"num", n>>

Str(s) == <<"str", s>>

IsNull(v) == v[1] = "null"

IsStr(v) == v[1] = "str"

NotNull(v) == ~IsNull(v)

\* str.lower() on one string: the letters A-Z go to a-z, the rest stay.
LowerChar(c) == IF c >= 65 /\ c <= 90 THEN c + 32 ELSE c

Lower(s) == [i \in 1..Len(s) |-> LowerChar(s[i])]

\* Python's order on str: by code point, a proper prefix first.
RECURSIVE StrLess(_, _)
StrLess(s, t) ==
    IF t = <<>> THEN FALSE
    ELSE IF s = <<>> THEN TRUE
    ELSE IF s[1] # t[1] THEN s[1] < t[1]
    ELSE StrLess(Tail(s), Tail(t))

\* The order sort_values uses on the non-null cells of one column (a column
\* read by read_csv holds numbers or strings, never both).
CellLess(a, b) ==
    IF IsStr(a) THEN StrLess(a[2], b[2]) ELSE a[2] < b[2]

---------------------------------------------------------------------------
(* Series: the cells of one column, in row order *)

Column(d, c) == [i \in 1..Len(d.rows) |-> d.rows[i][c]]

\* sum() of a boolean Series
Sum(b) == Cardinality({i \in DOMAIN b : b[i]})

\* Series.isna()
IsNa(s) == [i \in DOMAIN s |-> IsNull(s[i])]

\* The .str accessor exists on an object column only.  read_csv gives a
\* column object dtype when some cell is text, or when there is no row at
\* all; a column of numbers and empty fields is int64 or float64.
HasStrAccessor(s) == Len(s) = 0 \/ \E i \in DOMAIN s : IsStr(s[i])

\* Series.str.lower(): NaN for a cell that is not a string
StrLower(s) == [i \in DOMAIN s |-> IF IsStr(s[i]) THEN Str(Lower(s[i][2])) ELSE Null]

\* a != b, element by element: NaN differs from everything, itself included
SeriesNe(a, b) == [i \in DOMAIN a |-> IsNull(a[i]) \/ IsNull(b[i]) \/ a[i] # b[i]]

\* Series.equals: the same length, and at every place equal cells or two NaN
SeriesEquals(a, b) ==
    /\ Len(a) = Len(b)
    /\ \A i \in DOMAIN a : \/ IsNull(a[i]) /\ IsNull(b[i])
                           \/ NotNull(a[i]) /\ NotNull(b[i]) /\ a[i] = b[i]

Before(a, b, ascending) == IF ascending THEN CellLess(a, b) ELSE CellLess(b, a)

RECURSIVE Insert(_, _, _)
Insert(x, s, ascending) ==
    IF s = <<>> THEN <<x>>
    ELSE IF Before(x, Head(s), ascending) THEN <<x>> \o s
    ELSE <<Head(s)>> \o Insert(x, Tail(s), ascending)

RECURSIVE SortNotNull(_, _)
SortNotNull(s, ascending) ==
    IF s = <<>> THEN <<>>
    ELSE Insert(Head(s), SortNotNull(Tail(s), ascending), ascending)

\* sort_values with the NaN cells put first when descending, as the mirror
\* image of the ascending order would have them
SortValuesMirrored(s, ascending) ==
    IF ascending
    THEN SortNotNull(SelectSeq(s, NotNull), ascending) \o SelectSeq(s, IsNull)
    ELSE SelectSeq(s, IsNull) \o SortNotNull(SelectSeq(s, NotNull), ascending)

\* Series.sort_values(ascending=...).reset_index(drop=True): the non-null
\* cells in the requested direction, then the NaN cells (na_position is
\* left at 'last', whatever the direction).
SortValues(s, ascending) ==
    SortNotNull(SelectSeq(s, NotNull), ascending) \o SelectSeq(s, IsNull)

\* duplicated(subset=[one column]): rows compared on a key, not in full
DuplicatedOnKey(d) ==
    LET key == CHOOSE c \in d.columns : TRUE IN
    [i \in 1..Len(d.rows) |-> \E j \in 1..(i - 1) : d.rows[j][key] = d.rows[i][key]]

\* DataFrame.duplicated(): a row is marked when an earlier row has the same
\* cell in every column (two NaN count as the same cell).
Duplicated(d) ==
    [i \in 1..Len(d.rows) |-> \E j \in 1..(i - 1) : d.rows[j] = d.rows[i]]

---------------------------------------------------------------------------
(* What a predicate hands back *)

Return(passed, message) == <<"return", passed, message>>

Raise(exc) == <<"raise", exc>>

Raised(r) == r[1] = "raise"

Passed(r) == r[2]

Message(r) == r[3]

---------------------------------------------------------------------------
(* The six predicates *)

validate_text_case(d, column) ==
    IF column \notin d.columns
    THEN Return(FALSE, <<"Column '", column, "' not found in dataset">>)
    ELSE LET s == Column(d, column) IN
         IF ~HasStrAccessor(s)
         THEN Raise("AttributeError")
         ELSE LET non_lowercase == Sum(SeriesNe(StrLower(s), s)) IN
              IF non_lowercase > 0
              THEN Return(FALSE, <<"Found ", non_lowercase, " rows with non-lowercase ", column>>)
              ELSE Return(TRUE, <<"[ok] All ", column, " values are lowercase">>)

\* The loop of validate_no_nulls from its i-th column on, with the lines and
\* the flag it has so far.
RECURSIVE NoNullsLoop(_, _, _, _, _)
NoNullsLoop(d, columns, i, lines, all_valid) ==
    IF i > Len(columns) THEN Return(all_valid, lines)
    ELSE LET col == columns[i] IN
         IF col \notin d.columns
         THEN NoNullsLoop(d, columns, i + 1,
                          Append(lines, <<"Column '", col, "' not found">>), FALSE)
         ELSE LET null_count == Sum(IsNa(Column(d, col))) IN
              IF null_count > 0
              THEN NoNullsLoop(d, columns, i + 1,
                               Append(lines, <<"[x] ", col, ": ", null_count, " NULL values found">>),
                               FALSE)
              ELSE NoNullsLoop(d, columns, i + 1,
                               Append(lines, <<"[ok] ", col, ": No NULL values">>),
                               all_valid)

\* validate_no_nulls returning at the first column that is absent or holds
\* a NaN, with that column's line alone
RECURSIVE NoNullsFirstFailure(_, _, _)
NoNullsFirstFailure(d, columns, i) ==
    IF i > Len(columns) THEN NoNullsLoop(d, columns, 1, <<>>, TRUE)
    ELSE IF Passed(NoNullsLoop(d, <<columns[i]>>, 1, <<>>, TRUE))
         THEN NoNullsFirstFailure(d, columns, i + 1)
         ELSE NoNullsLoop(d, <<columns[i]>>, 1, <<>>, TRUE)

validate_no_nulls_first_failure(d, columns) == NoNullsFirstFailure(d, columns, 1)

\* The message is the lines joined by "\n": here, the sequence of the lines.
validate_no_nulls(d, columns) == NoNullsLoop(d, columns, 1, <<>>, TRUE)

validate_no_duplicates(d) ==
    LET duplicate_count == Sum(Duplicated(d)) IN
    IF duplicate_count > 0
    THEN Return(FALSE, <<"[x] Found ", duplicate_count, " duplicate rows">>)
    ELSE Return(TRUE, <<"[ok] No duplicate rows (total: ", Len(d.rows), " rows)">>)

validate_sorted(d, column, ascending) ==
    IF column \notin d.columns
    THEN Return(FALSE, <<"Column '", column, "' not found in dataset">>)
    ELSE LET sorted_values == SortValues(Column(d, column), ascending)
             actual_values == Column(d, column)
         IN  IF SeriesEquals(sorted_values, actual_values)
             THEN Return(TRUE, <<"[ok] Data is sorted by ", column,
                                 IF ascending THEN "ascending" ELSE "descending">>)
             ELSE Return(FALSE, <<"[x] Data is NOT sorted by ", column>>)

\* validate_row_count with the bounds excluded
validate_row_count_exclusive(d, expected_min, expected_max) ==
    LET actual == Len(d.rows) IN
    IF expected_min < actual /\ actual < expected_max
    THEN <<"return", TRUE, <<"[ok] Row count: ", actual, expected_min, expected_max>>>>
    ELSE <<"return", FALSE, <<"[x] Row count: ", actual, expected_min, expected_max>>>>

validate_row_count(d, expected_min, expected_max) ==
    LET actual == Len(d.rows) IN
    IF expected_min <= actual /\ actual <= expected_max
    THEN Return(TRUE, <<"[ok] Row count: ", actual, expected_min, expected_max>>)
    ELSE Return(FALSE, <<"[x] Row count: ", actual, expected_min, expected_max>>)

expected_columns == {"id", "name", "email", "age", "salary", "department", "status"}

\* validate_schema accepting any DataFrame that has the expected columns,
\* whatever else it has
validate_schema_superset(d) ==
    IF expected_columns \subseteq d.columns
    THEN <<"return", TRUE, <<"[ok] Schema matches: ", Cardinality(d.columns), " columns">>>>
    ELSE <<"return", FALSE, << <<"[x] Schema mismatch:">>,
                              <<"  Missing: ", expected_columns \ d.columns>> >> >>

\* The message of a mismatch is its lines, as they are separated by "\n".
validate_schema(d) ==
    LET actual_columns == d.columns IN
    IF expected_columns = actual_columns
    THEN Return(TRUE, <<"[ok] Schema matches: ", Cardinality(actual_columns), " columns">>)
    ELSE LET missing == expected_columns \ actual_columns
             extra == actual_columns \ expected_columns
         IN  Return(FALSE,
                    << <<"[x] Schema mismatch:">> >>
                    \o (IF missing # {} THEN << <<"  Missing: ", missing>> >> ELSE <<>>)
                    \o (IF extra # {} THEN << <<"  Extra: ", extra>> >> ELSE <<>>))

\* The defaults of validate_row_count, which run_all_validations relies on
DefaultMin == 24

DefaultMax == 25

---------------------------------------------------------------------------
(* The report *)

CheckNames == <<"schema", "row_count", "text_case", "no_nulls", "no_duplicates", "sorted">>

\* check_name.upper()
Upper(check_name) ==
    CASE check_name = "schema" -> "SCHEMA"
      [] check_name = "row_count" -> "ROW_COUNT"
      [] check_name = "text_case" -> "TEXT_CASE"
      [] check_name = "no_nulls" -> "NO_NULLS"
      [] check_name = "no_duplicates" -> "NO_DUPLICATES"
      [] check_name = "sorted" -> "SORTED"

\* An entry of the results dict: <<check_name, passed, message>>.  The loop
\* of print_report from its i-th entry on: what it has printed and its flag.
RECURSIVE ReportLoop(_, _, _, _)
ReportLoop(res, i, out, all_passed) ==
    IF i > Len(res) THEN [out |-> out, all_passed |-> all_passed]
    ELSE LET passed == res[i][2]
             status == IF passed THEN "PASS" ELSE "FAIL"
         IN  ReportLoop(res, i + 1,
                        out \o << <<"[", status, "] ", Upper(res[i][1])>>, <<"       ", res[i][3]>> >>,
                        IF ~passed THEN FALSE ELSE all_passed)

\* print_report with all_passed starting at False: nothing sets it to True
print_report_starts_false(res) ==
    LET loop == ReportLoop(res, 1, << <<"RHOMBUS AI DATA VALIDATION REPORT">> >>, FALSE) IN
    [out |-> loop.out, all_passed |-> loop.all_passed]

\* print_report with "all_passed = passed" in its loop: the last entry decides
print_report_last_wins(res) ==
    LET loop == ReportLoop(res, 1, << <<"RHOMBUS AI DATA VALIDATION REPORT">> >>, TRUE) IN
    [out |-> loop.out,
     all_passed |-> IF res = <<>> THEN TRUE ELSE res[Len(res)][2]]

\* print_report(results): [out |-> the lines printed, all_passed |-> the
\* value returned]
print_report(res) ==
    LET loop == ReportLoop(res, 1, << <<"RHOMBUS AI DATA VALIDATION REPORT">> >>, TRUE) IN
    [out |-> Append(loop.out,
                    IF loop.all_passed THEN <<"OVERALL: ALL VALIDATIONS PASSED">>
                                       ELSE <<"OVERALL: SOME VALIDATIONS FAILED">>),
     all_passed |-> loop.all_passed]

---------------------------------------------------------------------------
(* The DataFrames the model is run on *)

\* Longest column of the small DataFrames, and largest bound handed to
\* validate_row_count on them
MaxRows == 3

\* Longest list of columns handed to validate_no_nulls
MaxList == 2

SeqsUpTo(S, n) == UNION {[1..k -> S] : k \in 0..n}

\* The DataFrame with the columns cols whose i-th row holds cells[i], a
\* function from cols to cells
Frame(cols, cells) == [columns |-> cols, rows |-> cells]

\* No DataFrame bound yet (read_csv itself never yields one without columns)
Unloaded == Frame({}, <<>>)

\* One text column "name": strings and empty fields
NameCells == {Null, Str(<<97>>), Str(<<98>>), Str(<<97, 97>>)}

NameFrames == {Frame({"name"}, rows) : rows \in SeqsUpTo([{"name"} -> NameCells], MaxRows)}

\* One numeric column "id": numbers and empty fields
IdCells == {Null, Num(1), Num(2)}

IdFrames == {Frame({"id"}, rows) : rows \in SeqsUpTo([{"id"} -> IdCells], MaxRows)}

\* One column "status": text in either case with empty fields, or numbers
\* with empty fields
StatusTextCells == {Null, Str(<<97>>), Str(<<65>>), Str(<<97, 66>>)}

StatusNumCells == {Null, Num(1)}

StatusFrames ==
    {Frame({"status"}, rows) : rows \in SeqsUpTo([{"status"} -> StatusTextCells], MaxRows)
                                        \cup SeqsUpTo([{"status"} -> StatusNumCells], MaxRows)}

\* The columns "age" and "salary", or one of them: numbers and empty fields
AgeSalaryFrames ==
    UNION {{Frame(cols, rows) : rows \in SeqsUpTo([cols -> {Null, Num(1)}], MaxRows)}
           : cols \in {{"age", "salary"}, {"age"}, {"salary"}}}

\* The columns "id" and "name": rows that agree in both, in one, in none
IdNameRows == {[c \in {"id", "name"} |-> IF c = "id" THEN i ELSE n]
               : i \in {Num(1), Num(2)}, n \in {Null, Str(<<97>>)}}

IdNameFrames == {Frame({"id", "name"}, rows) : rows \in SeqsUpTo(IdNameRows, MaxRows)}

\* A header alone: any columns among the expected ones and one more
HeaderFrames ==
    {Frame(cols, <<>>) : cols \in (SUBSET (expected_columns \cup {"extra"})) \ {{}}}

SmallFrames ==
    NameFrames \cup IdFrames \cup StatusFrames \cup AgeSalaryFrames
    \cup IdNameFrames \cup HeaderFrames

\* What the cleaning pipeline may have got wrong in a file it wrote
Defects == {"drop_status", "drop_name", "extra_column", "null_age", "null_salary",
            "upper_status", "numeric_status", "null_status", "duplicate_row", "unsorted"}

\* The row of the cleaned file that row i of the written file holds: with
\* "duplicate_row" row 2 repeats row 1, with "unsorted" the last two rows
\* are exchanged.
SourceRow(i, n, D) ==
    IF "duplicate_row" \in D /\ i = 2 THEN 1
    ELSE IF "unsorted" \in D /\ i = n THEN n - 1
    ELSE IF "unsorted" \in D /\ i = n - 1 THEN n
    ELSE i

PipelineCell(k, c, D) ==
    CASE c = "id" -> Num(k)
      [] c = "name" -> Str(<<97 + (k \div 10), 97 + (k % 10)>>)
      [] c = "email" -> Str(<<97 + (k % 10), 64, 120>>)
      [] c = "age" -> IF "null_age" \in D /\ k = 3 THEN Null ELSE Num(30)
      [] c = "salary" -> IF "null_salary" \in D /\ k = 4 THEN Null ELSE Num(50)
      [] c = "department" -> Str(<<72, 82>>)
      [] c = "status" ->
            IF "null_status" \in D /\ k = 6 THEN Null
            ELSE IF "numeric_status" \in D
                 THEN (IF "upper_status" \in D THEN Str(<<49>>) ELSE Num(1))
                 ELSE IF "upper_status" \in D /\ k = 5 THEN Str(<<65>>) ELSE Str(<<97>>)
      [] c = "extra" -> Str(<<120>>)

PipelineColumns(D) ==
    (expected_columns \ ((IF "drop_status" \in D THEN {"status"} ELSE {})
                          \cup (IF "drop_name" \in D THEN {"name"} ELSE {})))
    \cup (IF "extra_column" \in D THEN {"extra"} ELSE {})

\* The file of n rows the pipeline wrote with the defects D
PipelineFrame(n, D) ==
    Frame(PipelineColumns(D),
          [i \in 1..n |-> [c \in PipelineColumns(D) |-> PipelineCell(SourceRow(i, n, D), c, D)]])

PipelineFrames ==
    {PipelineFrame(n, D) : n \in (DefaultMin - 1)..(DefaultMax + 1), D \in SUBSET Defects}

\* What sys.argv[1] may name: nothing (no argument), a path that does not
\* exist, a file read_csv cannot parse, or a CSV file
Files ==
    {<<"noarg">>, <<"missing">>, <<"unparseable">>}
    \cup {<<"csv", d>> : d \in PipelineFrames \cup SmallFrames}

\* The DataFrames the tests hand to the predicates
TestFrames ==
    SmallFrames \cup {PipelineFrame(n, D) : n \in {DefaultMin, DefaultMax},
                                            D \in {{}, {"duplicate_row"}, {"unsorted"}}}

\* The results mappings print_report is called on: any of the six checks,
\* in their order, each passed or failed
RECURSIVE MappingsFrom(_)
MappingsFrom(i) ==
    IF i > Len(CheckNames) THEN {<<>>}
    ELSE LET rest == MappingsFrom(i + 1) IN
         rest \cup {<<e>> \o m : e \in {<<CheckNames[i], b, <<"message">>>> : b \in BOOLEAN},
                                 m \in rest}

Mappings == MappingsFrom(1)

---------------------------------------------------------------------------
(* The program: main, and the tests' direct calls *)

NoCall == <<"none">>

\* An entry of the results dict of run_all_validations
Entry(check_name, r) == <<check_name, Passed(r), Message(r)>>

\* Either the command line is started on a file (pc = "main"), or the test
\* module has a DataFrame, or none, in hand (pc = "test").
Init ==
    /\ results = <<>>
    /\ stdout = <<>>
    /\ exit_code = -1
    /\ call = NoCall
    /\ ret = NoCall
    /\ \/ pc = "main" /\ file \in Files /\ df = Unloaded
       \/ pc = "test" /\ file = <<"noarg">> /\ df \in TestFrames \cup {Unloaded}

\* except Exception as e: print the error, sys.exit(1)
Fail(exc) ==
    /\ stdout' = Append(stdout, <<"ERROR: ", exc>>)
    /\ results' = <<>>
    /\ exit_code' = 1
    /\ pc' = "exit"

\* main with no argument: the usage lines, sys.exit(1)
Usage ==
    /\ pc = "main" /\ file = <<"noarg">>
    /\ stdout' = <<<<"Usage: python validator.py <path_to_cleaned_csv>">>>>
    /\ exit_code' = 1
    /\ pc' = "exit"
    /\ UNCHANGED <<file, df, results, call, ret>>

\* main up to run_all_validations: load_csv raises FileNotFoundError on a
\* path that does not exist and read_csv raises on what it cannot parse.
LoadCsv ==
    /\ pc = "main" /\ file # <<"noarg">>
    /\ IF file[1] = "csv"
       THEN /\ df' = file[2]
            /\ stdout' = <<<<"Loading: ">>,
                           <<"Loaded ", Len(file[2].rows), Cardinality(file[2].columns)>>>>
            /\ pc' = "schema"
            /\ UNCHANGED <<results, exit_code>>
       ELSE /\ stdout' = <<<<"Loading: ">>,
                           <<"ERROR: ", IF file[1] = "missing" THEN "FileNotFoundError"
                                                               ELSE "ParserError">>>>
            /\ exit_code' = 1
            /\ pc' = "exit"
            /\ UNCHANGED <<df, results>>
    /\ UNCHANGED <<file, call, ret>>

\* One entry of the dict literal of run_all_validations: the check is
\* evaluated and, unless it raises, its pair is stored under its name.
RunCheck(at, r, next) ==
    /\ pc = at
    /\ IF Raised(r)
       THEN Fail(r[2])
       ELSE /\ results' = Append(results, Entry(at, r))
            /\ pc' = next
            /\ UNCHANGED <<stdout, exit_code>>
    /\ UNCHANGED <<file, df, call, ret>>

RunSchema == RunCheck("schema", validate_schema(df), "row_count")

RunRowCount == RunCheck("row_count", validate_row_count(df, DefaultMin, DefaultMax), "text_case")

RunTextCase == RunCheck("text_case", validate_text_case(df, "status"), "no_nulls")

RunNoNulls == RunCheck("no_nulls", validate_no_nulls(df, <<"age", "salary">>), "no_duplicates")

RunNoDuplicates == RunCheck("no_duplicates", validate_no_duplicates(df), "sorted")

RunSorted == RunCheck("sorted", validate_sorted(df, "name", TRUE), "print_report")

\* main: all_passed = print_report(results)
PrintReport ==
    /\ pc = "print_report"
    /\ LET report == print_report(results) IN
       /\ stdout' = stdout \o report.out
       /\ ret' = <<"return", report.all_passed>>
    /\ pc' = "sys_exit"
    /\ UNCHANGED <<file, df, results, exit_code, call>>

\* main ending in sys.exit(0) whatever print_report returned
SysExitAlwaysZero ==
    /\ pc = "sys_exit"
    /\ exit_code' = 0
    /\ pc' = "exit"
    /\ UNCHANGED <<file, df, results, stdout, call, ret>>

\* main: sys.exit(0 if all_passed else 1)
SysExit ==
    /\ pc = "sys_exit"
    /\ exit_code' = IF Passed(ret) THEN 0 ELSE 1
    /\ pc' = "exit"
    /\ UNCHANGED <<file, df, results, stdout, call, ret>>

\* A test calls a predicate on its DataFrame.
Called(c, r) ==
    /\ pc = "test" /\ df # Unloaded
    /\ call' = c
    /\ ret' = r
    /\ pc' = "returned"
    /\ UNCHANGED <<file, df, results, stdout, exit_code>>

CallSchema == Called(<<"validate_schema">>, validate_schema(df))

RowBounds == (0..MaxRows) \cup {DefaultMin, DefaultMax}

CallRowCount ==
    \E lo \in RowBounds, hi \in RowBounds :
        Called(<<"validate_row_count", lo, hi>>, validate_row_count(df, lo, hi))

ColumnArgs == {"name", "id", "status", "missing"}

CallTextCase ==
    \E column \in ColumnArgs :
        Called(<<"validate_text_case", column>>, validate_text_case(df, column))

CallNoNulls ==
    \E columns \in SeqsUpTo({"age", "salary", "missing"}, MaxList) :
        Called(<<"validate_no_nulls", columns>>, validate_no_nulls(df, columns))

CallNoDuplicates == Called(<<"validate_no_duplicates">>, validate_no_duplicates(df))

CallSorted ==
    \E column \in ColumnArgs, ascending \in BOOLEAN :
        Called(<<"validate_sorted", column, ascending>>, validate_sorted(df, column, ascending))

\* print_report called on a results mapping of the caller's own
CallPrintReport ==
    /\ pc = "test" /\ df = Unloaded
    /\ \E m \in Mappings :
        /\ results' = m
        /\ stdout' = print_report(m).out
        /\ ret' = <<"return", print_report(m).all_passed>>
    /\ call' = <<"print_report">>
    /\ pc' = "returned"
    /\ UNCHANGED <<file, df, exit_code>>

Next ==
    \/ Usage
    \/ LoadCsv
    \/ RunSchema
    \/ RunRowCount
    \/ RunTextCase
    \/ RunNoNulls
    \/ RunNoDuplicates
    \/ RunSorted
    \/ PrintReport
    \/ SysExit
    \/ CallSchema
    \/ CallRowCount
    \/ CallTextCase
    \/ CallNoNulls
    \/ CallNoDuplicates
    \/ CallSorted
    \/ CallPrintReport

Spec == Init /\ [][Next]_vars

---------------------------------------------------------------------------
(* Claims *)

PrintReportReturned ==
    pc = "sys_exit" \/ (pc = "returned" /\ call[1] = "print_report")

\* C1: whenever print_report has returned, in main or called on a mapping
\* of the caller's, the value it returned is TRUE exactly when the passed
\* flag of every entry of the mapping is TRUE.
C1_OverallIsConjunction ==
    PrintReportReturned =>
        (Passed(ret) <=> \A i \in DOMAIN results : results[i][2])

\* print_report has returned FALSE on a mapping whose first entry failed and
\* whose last entry passed.
C1_Witness ==
    /\ pc = "returned" /\ call[1] = "print_report"
    /\ Len(results) >= 2
    /\ ~results[1][2] /\ results[Len(results)][2]
    /\ ~Passed(ret)

CheckNameSet == {CheckNames[i] : i \in DOMAIN CheckNames}

Present == {results[i][1] : i \in DOMAIN results}

\* C2, as claimed: whenever print_report has returned on a mapping from
\* which one of the six checks is absent, the value it returned is FALSE.
C2_MissingCheckFails ==
    (PrintReportReturned /\ Present # CheckNameSet) => ~Passed(ret)

\* C2, amended: a check absent from the mapping does not count: when every
\* entry that is present has passed, print_report returns TRUE, the empty
\* mapping included.  In main the mapping handed to print_report is never
\* short of a check: it holds the six of them, in their order.
C2_MissingCheckIgnored ==
    /\ (PrintReportReturned /\ Present # CheckNameSet
                            /\ \A i \in DOMAIN results : results[i][2])
           => Passed(ret)
    /\ pc \in {"print_report", "sys_exit"}
           => [i \in DOMAIN results |-> results[i][1]] = CheckNames

\* print_report has returned TRUE on a mapping of some, not all, of the six
\* checks.
C2_Witness ==
    /\ pc = "returned" /\ call[1] = "print_report"
    /\ results # <<>> /\ Present # CheckNameSet
    /\ Passed(ret)

\* C3, as claimed: once main has a DataFrame and is past
\* run_all_validations, the results hold one (passed, message) entry for
\* each of the six checks, in the fixed order.
C3_AllSixReturned ==
    (df # Unloaded /\ pc \in {"print_report", "sys_exit", "exit"})
        => [i \in DOMAIN results |-> results[i][1]] = CheckNames

\* The six checks, each called as run_all_validations calls it
SixChecks(d) ==
    <<validate_schema(d), validate_row_count(d, 24, 25), validate_text_case(d, "status"),
      validate_no_nulls(d, <<"age", "salary">>), validate_no_duplicates(d),
      validate_sorted(d, "name", TRUE)>>

AllSixPass(d) ==
    \A i \in DOMAIN SixChecks(d) : ~Raised(SixChecks(d)[i]) /\ Passed(SixChecks(d)[i])

Printed(first) == \E i \in DOMAIN stdout : stdout[i][1] = first

\* C4: when main, started on a path, has ended, its exit code is 0 or 1; it
\* is 0 exactly when the file was loaded and each of the six checks passed
\* on it; and when the file was missing or could not be parsed an error
\* line was printed, no line of a report was, and no results exist.
C4_ExitCode ==
    (pc = "exit" /\ file # <<"noarg">>) =>
        /\ exit_code \in {0, 1}
        /\ exit_code = 0 <=> (file[1] = "csv" /\ AllSixPass(file[2]))
        /\ file[1] # "csv" =>
              /\ Printed("ERROR: ")
              /\ ~Printed("RHOMBUS AI DATA VALIDATION REPORT")
              /\ ~Printed("[")
              /\ results = <<>>

\* main has ended with exit code 0 after a report of six entries.
C4_Witness ==
    pc = "exit" /\ exit_code = 0 /\ Len(results) = 6 /\ Printed("OVERALL: ALL VALIDATIONS PASSED")

\* The order of an ascending sort_values on the cells of a column: a <= b,
\* with NaN after every other cell
AscendingLeq(a, b) == IsNull(b) \/ (NotNull(a) /\ NotNull(b) /\ ~CellLess(b, a))

NonDecreasing(s) == \A i \in 1..(Len(s) - 1) : AscendingLeq(s[i], s[i + 1])

NonIncreasing(s) == \A i \in 1..(Len(s) - 1) : AscendingLeq(s[i + 1], s[i])

\* The non-null cells never increase and no NaN comes before one of them.
NonIncreasingNullsLast(s) ==
    \A i \in 1..(Len(s) - 1) :
        IsNull(s[i + 1]) \/ (NotNull(s[i]) /\ ~CellLess(s[i], s[i + 1]))

NotFound(r, column) ==
    ~Passed(r) /\ Message(r) = <<"Column '", column, "' not found in dataset">>

\* C5, as claimed: validate_sorted fails with the column-not-found message
\* on an absent column; on a present one it passes, ascending, exactly
\* when the cells in row order never decrease in the order of the sort and,
\* descending, exactly when they never increase in it.
C5_SortedIffMonotone ==
    call[1] = "validate_sorted" =>
        IF call[2] \notin df.columns THEN NotFound(ret, call[2])
        ELSE Passed(ret) <=> IF call[3] THEN NonDecreasing(Column(df, call[2]))
                                        ELSE NonIncreasing(Column(df, call[2]))

\* C5, amended: as claimed when ascending (the empty cells last); when
\* descending it passes exactly when the non-null cells never increase and
\* the empty cells, which sort last in either direction, follow them.
C5_SortedNullsLast ==
    call[1] = "validate_sorted" =>
        IF call[2] \notin df.columns THEN NotFound(ret, call[2])
        ELSE Passed(ret) <=> IF call[3] THEN NonDecreasing(Column(df, call[2]))
                                        ELSE NonIncreasingNullsLast(Column(df, call[2]))

\* validate_sorted has passed, descending, a column of two equal cells
\* followed by an empty one.
C5_Witness ==
    /\ call[1] = "validate_sorted" /\ ~call[3] /\ call[2] \in df.columns
    /\ Len(df.rows) = 3
    /\ NotNull(df.rows[1][call[2]]) /\ df.rows[1][call[2]] = df.rows[2][call[2]]
    /\ IsNull(df.rows[3][call[2]])
    /\ Passed(ret)

\* C6, as claimed: validate_text_case returns a (passed, message) pair on
\* every DataFrame; it fails with the column-not-found message on an absent
\* column, and on a present column of strings it passes exactly when every
\* string is its own lowercase form.
C6_TextCaseTotal ==
    call[1] = "validate_text_case" =>
        /\ ~Raised(ret)
        /\ IF call[2] \notin df.columns THEN NotFound(ret, call[2])
           ELSE LET s == Column(df, call[2]) IN
                (\A i \in DOMAIN s : IsStr(s[i]))
                    => (Passed(ret) <=> \A i \in DOMAIN s : Lower(s[i][2]) = s[i][2])

NullFree(d, col) == col \in d.columns /\ \A i \in DOMAIN d.rows : NotNull(d.rows[i][col])

NullCount(d, col) == Cardinality({i \in DOMAIN d.rows : IsNull(d.rows[i][col])})

\* The line of validate_no_nulls about the column col of d
IsLineAbout(line, d, col) ==
    IF col \notin d.columns THEN line = <<"Column '", col, "' not found">>
    ELSE IF NullFree(d, col) THEN line = <<"[ok] ", col, ": No NULL values">>
    ELSE line = <<"[x] ", col, ": ", NullCount(d, col), " NULL values found">>

\* C7: validate_no_nulls passes exactly when every column of its list is a
\* column of the DataFrame and holds no empty cell; its message has one
\* line for each column of the list, in the order of the list, saying of
\* that column that it is absent, or how many empty cells it holds, or
\* that it holds none.
C7_NoNulls ==
    call[1] = "validate_no_nulls" =>
        /\ Passed(ret) <=> \A k \in DOMAIN call[2] : NullFree(df, call[2][k])
        /\ Len(Message(ret)) = Len(call[2])
        /\ \A k \in DOMAIN call[2] : IsLineAbout(Message(ret)[k], df, call[2][k])

\* validate_no_nulls has failed on a list whose first column holds an empty
\* cell and whose second is absent, with a line about each.
C7_Witness ==
    /\ call[1] = "validate_no_nulls" /\ Len(call[2]) = 2
    /\ call[2][1] \in df.columns /\ ~NullFree(df, call[2][1])
    /\ call[2][2] \notin df.columns
    /\ ~Passed(ret) /\ Len(Message(ret)) = 2

\* C8: validate_no_duplicates passes exactly when no two rows at different
\* places hold the same cell in every column; when it fails, its message
\* carries the number of rows beyond the first of each group of identical
\* rows.
C8_NoDuplicates ==
    call[1] = "validate_no_duplicates" =>
        /\ Passed(ret) <=>
              \A i \in DOMAIN df.rows : \A j \in DOMAIN df.rows :
                  i # j => \E c \in df.columns : df.rows[i][c] # df.rows[j][c]
        /\ ~Passed(ret) =>
              /\ Message(ret)[1] = "[x] Found "
              /\ Message(ret)[2] = Len(df.rows) - Cardinality({df.rows[i] : i \in DOMAIN df.rows})

\* validate_no_duplicates has passed a DataFrame two rows of which have the
\* same id and differ in another column.
C8_Witness ==
    /\ call[1] = "validate_no_duplicates" /\ {"id", "name"} \subseteq df.columns
    /\ Len(df.rows) >= 2
    /\ df.rows[1]["id"] = df.rows[2]["id"] /\ df.rows[1]["name"] # df.rows[2]["name"]
    /\ Passed(ret)

\* The DataFrame d with the column c added (of empty cells) when it lacks
\* it, removed when it has it
Toggle(d, c) ==
    LET cols == IF c \in d.columns THEN d.columns \ {c} ELSE d.columns \cup {c} IN
    Frame(cols, [i \in DOMAIN d.rows |-> [x \in cols |-> IF x \in d.columns THEN d.rows[i][x] ELSE Null]])

SchemaExact ==
    /\ Passed(ret) <=> df.columns = {"id", "name", "email", "age", "salary", "department", "status"}
    /\ ~Passed(ret) =>
          LET m == Message(ret)
              missing == expected_columns \ df.columns
              extra == df.columns \ expected_columns
          IN  /\ missing # {} => \E k \in DOMAIN m : m[k] = <<"  Missing: ", missing>>
              /\ extra # {} => \E k \in DOMAIN m : m[k] = <<"  Extra: ", extra>>

\* C9, as claimed: validate_schema passes exactly on the seven expected
\* columns, lists the missing and the unexpected columns when it fails, and
\* from any DataFrame, adding or removing any one column changes its result.
C9_AnyColumnFlips ==
    call[1] = "validate_schema" =>
        /\ SchemaExact
        /\ \A c \in expected_columns \cup {"extra"} :
              Passed(validate_schema(Toggle(df, c))) # Passed(ret)

\* C9, amended: validate_schema passes exactly on the seven expected
\* columns, lists the missing and the unexpected columns when it fails, and
\* from a DataFrame that passes, adding or removing any one column makes it
\* fail.
C9_PassingColumnFlips ==
    call[1] = "validate_schema" =>
        /\ SchemaExact
        /\ Passed(ret) =>
              \A c \in expected_columns \cup {"extra"} : ~Passed(validate_schema(Toggle(df, c)))

\* validate_schema has passed a DataFrame with rows.
C9_Witness ==
    call[1] = "validate_schema" /\ Passed(ret) /\ Len(df.rows) > 0

\* C10: validate_row_count passes exactly when min <= |D| <= max; with
\* min <= max, |D| = min and |D| = max pass; |D| = min - 1 and
\* |D| = max + 1 fail; and the row_count entry of run_all_validations
\* passed exactly when the DataFrame has 24 or 25 rows.
C10_RowCount ==
    /\ call[1] = "validate_row_count" =>
          LET n == Len(df.rows)
              min == call[2]
              max == call[3]
          IN  /\ Passed(ret) <=> (min <= n /\ n <= max)
              /\ (min <= max /\ (n = min \/ n = max)) => Passed(ret)
              /\ (n = min - 1 \/ n = max + 1) => ~Passed(ret)
    /\ (pc \in {"text_case", "no_nulls", "no_duplicates", "sorted", "print_report", "sys_exit"})
          => (results[2][2] <=> Len(df.rows) \in {24, 25})

\* validate_row_count has passed 24 rows between the bounds 24 and 24.
C10_Witness ==
    /\ call = <<"validate_row_count", 24, 24>>
    /\ Len(df.rows) = 24 /\ Passed(ret)

====
